---- MODULE Spec2Model ----
(***************************************************************************)
(* History-sync: discovery of local assistant histories (discover.py),     *)
(* link consolidation under one root (consolidate.py) and pulls from       *)
(* remote hosts over ssh/rsync (pull_remote.py).                           *)
(*                                                                         *)
(* The consolidated root is modelled as one record per hostname holding    *)
(* whether root/hostname exists and what occupies root/hostname/<tool>.    *)
(* The ssh and rsync subprocesses are external: what they answer is drawn  *)
(* with \E at the step that calls them.                                    *)
(***************************************************************************)
EXTENDS Naturals, Sequences, FiniteSets, TLC

VARIABLES
    root,     \* the consolidated directory: hostname -> [exists, ent: tool -> entry]
    live,     \* content of the live local base directories (link targets)
    pc,       \* position of the running operation
    fr,       \* frame of the running / last pull_from_remote call
    probes,   \* remote paths probed by the last discover_remote_histories, in order
    calls,    \* rsync_remote_dir calls of the last pull_from_remote, in order
    con,      \* arguments and report of the last consolidate_local call
    mul,      \* frame of the running / last pull_from_multiple call
    root0,    \* the consolidated directory when the last operation was called
    ops,      \* consolidate_local and pull_from_remote calls budgeted so far
    home,     \* the home directory discover_all scans
    dres,     \* what discover_all(home) gave: a DiscoveryResult, or an exception
    remote,   \* what the remote host answers to each existence probe
    gitignore, \* <root>/.gitignore: absent, or a file and its lines
    edits     \* edits the user has made to .gitignore so far

vars ==
    <<root, live, pc, fr, probes, calls, con, mul, root0, ops, home, dres, remote,
      gitignore, edits>>

(* ------------------------------ bounds --------------------------------- *)

\* calls of consolidate_local and pull_from_remote in one behaviour; a
\* pull_from_multiple over n hosts makes n of them (and counts 1 when n = 0),
\* so this is also the longest host list
MaxOps == 2

\* edits the user makes to .gitignore
MaxEdits == 2

\* entries in one workspaceStorage directory
MaxWs == 1

\* subdirectories in one History directory
MaxHist == 1

\* lines of history.jsonl
MaxLines == 1

\* entries in .claude/projects
MaxProjects == 1

\* *.jsonl files in one project directory
MaxSessions == 3

(* ------------------------------ universe ------------------------------- *)

None == ""

Tools == {"claude-code", "cursor"}

\* socket.gethostname() of the machine running the scripts
LocalHostname == "laptop"

Hostnames == {"laptop", "box"}

\* f"{user}@{hostname}" over the users and hostnames of the model
UserAt(user, hostname) ==
    CASE user = "bob" /\ hostname = "box" -> "bob@box"
      [] user = "bob" /\ hostname = "laptop" -> "bob@laptop"
      [] OTHER -> hostname

\* RemoteHost.__post_init__: ssh_host is derived from user and hostname
RemoteHost(hostname, user) ==
    [hostname |-> hostname,
     user |-> user,
     ssh_host |-> IF user # "" THEN UserAt(user, hostname) ELSE hostname]

\* the hosts a pull may name: one whose hostname is the local hostname and an
\* account on another machine
RemoteHosts == {RemoteHost("laptop", ""), RemoteHost("box", "bob")}

\* the local base directories a DiscoveryResult can name
LiveBases == {"~/.claude", "~/.cursor-server", "~/.config/Cursor"}

\* a link target that does not exist
StaleTarget == "/gone"

\* DiscoveryResult as consolidate_local reads it (hostname and the two bases)
DiscoveryResults ==
    [hostname : {LocalHostname},
     claude_code_base : {None, "~/.claude"},
     cursor_base : {None, "~/.cursor-server", "~/.config/Cursor"}]

(* --------------------------- filesystem entries ------------------------ *)

Absent == [kind |-> "absent", ref |-> ""]

RegularFile == [kind |-> "file", ref |-> ""]

\* a symbolic link and its target
Link(target) == [kind |-> "link", ref |-> target]

\* a real directory; content names the remote it mirrors ("empty" when new)
Dir(content) == [kind |-> "dir", ref |-> content]

\* Path.exists(): follows links
Exists(e) == e.kind \in {"file", "dir"} \/ (e.kind = "link" /\ e.ref \in LiveBases)

\* Path.is_symlink()
IsSymlink(e) == e.kind = "link"

\* Path.is_dir(): follows links
IsDir(e) == e.kind = "dir" \/ (e.kind = "link" /\ e.ref \in LiveBases)

EmptyHost == [exists |-> FALSE, ent |-> [t \in Tools |-> Absent]]

\* host_dir.mkdir(parents=True, exist_ok=True)
MkdirHost(r, hostname) == [r EXCEPT ![hostname].exists = TRUE]

SetEntry(r, hostname, tool, e) == [r EXCEPT ![hostname].ent[tool] = e]

\* <path>.mkdir(exist_ok=True) on a tool path: FileExistsError unless the path
\* is free or is (a link to) a directory
MkdirRaises(e) == e.kind # "absent" /\ ~IsDir(e)

MkdirEntry(e) == IF e.kind = "absent" THEN Dir("empty") ELSE e

(* ------------------------------ discover.py ---------------------------- *)

\* File names and paths are sequences of characters and of names, so that
\* slicing, replacing and substring tests are computed as Python computes them.

S_claude == <<".", "c", "l", "a", "u", "d", "e">>

S_config == <<".", "c", "o", "n", "f", "i", "g">>

S_Cursor == <<"C", "u", "r", "s", "o", "r">>

S_cursor_server == <<".", "c", "u", "r", "s", "o", "r", "-", "s", "e", "r", "v", "e", "r">>

S_Library == <<"L", "i", "b", "r", "a", "r", "y">>

S_AppSupport == <<"A", "p", "p", "l", "i", "c", "a", "t", "i", "o", "n", " ", "S", "u", "p", "p", "o", "r", "t">>

S_data == <<"d", "a", "t", "a">>

S_User == <<"U", "s", "e", "r">>

S_workspaceStorage == <<"w", "o", "r", "k", "s", "p", "a", "c", "e", "S", "t", "o", "r", "a", "g", "e">>

S_History == <<"H", "i", "s", "t", "o", "r", "y">>

S_file_history == <<"_", "f", "i", "l", "e", "_", "h", "i", "s", "t", "o", "r", "y">>

S_ellipsis == <<".", ".", ".">>

S_config_Cursor == <<".", "c", "o", "n", "f", "i", "g", "/", "C", "u", "r", "s", "o", "r">>

S_hash == <<"0", "1", "2", "3", "4", "5", "6", "7", "8", "9", "a", "b", "c", "d", "e", "f">>


S_index == <<"_", "i", "n", "d", "e", "x">>

S_history_jsonl == <<"h", "i", "s", "t", "o", "r", "y", ".", "j", "s", "o", "n", "l">>

S_projects == <<"p", "r", "o", "j", "e", "c", "t", "s">>

S_p1 == <<"p", "1">>

S_a_b_c == <<"a", "-", "b", "-", "c">>

S_dash_src == <<"-", "s", "r", "c">>

S_hidden == <<".", "t", "m", "p">>

S_dash_dash_x == <<"-", "-", "x">>

S_jsonl == <<".", "j", "s", "o", "n", "l">>

S_notes_txt == <<"n", "o", "t", "e", "s", ".", "t", "x", "t">>

\* the home directory handed to discover_all
HomePath == <<<<"h">>>>

\* str(path): the names joined with "/"
RECURSIVE PathStr(_)
PathStr(p) == IF p = <<>> THEN <<>> ELSE <<"/">> \o Head(p) \o PathStr(Tail(p))

\* Python's "frag in text" on strings
IsSubstring(frag, text) ==
    \E i \in 1..(Len(text) - Len(frag) + 1) : SubSeq(text, i, i + Len(frag) - 1) = frag

\* text[:n]
Take(text, n) == SubSeq(text, 1, IF Len(text) < n THEN Len(text) ELSE n)

\* str.replace('-', '/')
ReplaceDash(text) == [i \in 1..Len(text) |-> IF text[i] = "-" THEN "/" ELSE text[i]]

\* DecodeProjectName with the leading '/' kept
DecodeProjectName_keeps_slash(name) == ReplaceDash(name)

\* the project label: replace('-', '/') and one leading '/' stripped
DecodeProjectName(name) ==
    LET r == ReplaceDash(name)
    IN  IF Len(r) > 0 /\ r[1] = "/" THEN Tail(r) ELSE r

\* str.endswith(suffix)
EndsWith(text, suffix) ==
    /\ Len(text) >= Len(suffix)
    /\ SubSeq(text, Len(text) - Len(suffix) + 1, Len(text)) = suffix

\* the files of a project directory: its session files, named s<i>.jsonl, and
\* notes.txt when the directory holds another file
ProjectFiles(e) ==
    [i \in 1..e.sessions |-> <<"s">> \o SubSeq(S_hash, i, i) \o S_jsonl]
    \o (IF e.other THEN <<S_notes_txt>> ELSE <<>>)

\* project_dir.glob("*.jsonl")
GlobJsonl(files) == SelectSeq(files, LAMBDA f : EndsWith(f, S_jsonl))

\* home / ".claude"
ClaudeBasePath == HomePath \o <<S_claude>>

\* cursor_paths of discover_cursor, in order
cursor_ws_paths ==
    <<HomePath \o <<S_config, S_Cursor, S_User, S_workspaceStorage>>,
      HomePath \o <<S_cursor_server, S_data, S_User, S_workspaceStorage>>,
      HomePath \o <<S_Library, S_AppSupport, S_Cursor, S_User, S_workspaceStorage>>>>

\* history_paths of discover_cursor, in order
history_paths ==
    <<HomePath \o <<S_cursor_server, S_data, S_User, S_History>>,
      HomePath \o <<S_config, S_Cursor, S_User, S_History>>>>

\* the editor assistant's root directories, in the order of cursor_ws_paths
CursorRoots ==
    <<HomePath \o <<S_config, S_Cursor>>,
      HomePath \o <<S_cursor_server>>,
      HomePath \o <<S_Library, S_AppSupport, S_Cursor>>>>

Location(tool, path, project_name, session_count) ==
    [tool |-> tool, path |-> path, project_name |-> project_name,
     session_count |-> session_count]

\* the "if project_dir.is_dir() and not hidden ... if session_files" body for
\* the entries of .claude/projects from index i on
RECURSIVE ProjectLocations(_, _)
ProjectLocations(entries, i) ==
    IF i > Len(entries) THEN <<>>
    ELSE LET e == entries[i]
             session_files == GlobJsonl(ProjectFiles(e))
             emit == /\ e.is_dir /\ ~(Len(e.name) > 0 /\ e.name[1] = ".")
                     /\ session_files # <<>>
         IN  (IF emit
              THEN <<Location("claude-code", ClaudeBasePath \o <<S_projects, e.name>>,
                              DecodeProjectName(e.name), Len(session_files))>>
              ELSE <<>>) \o ProjectLocations(entries, i + 1)

\* discover_claude_code(home): the locations, or raised when history.jsonl
\* exists and cannot be opened
discover_claude_code(h) ==
    IF ~h.claude THEN [raised |-> FALSE, locations |-> <<>>]
    ELSE IF h.index = "unreadable" THEN [raised |-> TRUE, locations |-> <<>>]
    ELSE [raised |-> FALSE,
          locations |->
            (IF h.index = "ok"
             THEN <<Location("claude-code", ClaudeBasePath \o <<S_history_jsonl>>,
                             S_index, h.index_lines)>>
             ELSE <<>>)
            \o (IF h.projects.exists THEN ProjectLocations(h.projects.entries, 1)
                ELSE <<>>)]

\* the workspace_dir loop over one workspaceStorage directory from index i on
RECURSIVE WorkspaceLocations(_, _, _)
WorkspaceLocations(ws_path, entries, i) ==
    IF i > Len(entries) THEN <<>>
    ELSE LET e == entries[i]
         IN  (IF e.is_dir
              THEN <<Location("cursor", ws_path \o <<e.name>>,
                              Take(e.name, 12) \o S_ellipsis,
                              IF e.state_db THEN 1 ELSE 0)>>
              ELSE <<>>) \o WorkspaceLocations(ws_path, entries, i + 1)

\* the "for ws_path in cursor_paths" loop from index i on
RECURSIVE AllWorkspaceLocations(_, _)
AllWorkspaceLocations(h, i) ==
    IF i > Len(cursor_ws_paths) THEN <<>>
    ELSE (IF h.ws[i].exists
          THEN WorkspaceLocations(cursor_ws_paths[i], h.ws[i].entries, 1)
          ELSE <<>>) \o AllWorkspaceLocations(h, i + 1)

\* the "for hist_path in history_paths" loop from index j on
RECURSIVE HistoryLocations(_, _)
HistoryLocations(h, j) ==
    IF j > Len(history_paths) THEN <<>>
    ELSE (IF h.hist[j].exists /\ h.hist[j].dirs > 0
          THEN <<Location("cursor", history_paths[j], S_file_history, h.hist[j].dirs)>>
          ELSE <<>>) \o HistoryLocations(h, j + 1)

\* discover_cursor(home)
discover_cursor(h) == AllWorkspaceLocations(h, 1) \o HistoryLocations(h, 1)

ClaudeCodeBase_needs_index(h) == IF h.claude /\ h.index = "ok" THEN ClaudeBasePath ELSE <<>>

\* ClaudeCodeBase without the exists() test
ClaudeCodeBase_unconditional(h) == ClaudeBasePath

\* claude_code_base of discover_all
ClaudeCodeBase(h) == IF h.claude THEN ClaudeBasePath ELSE <<>>

\* the "Set cursor base if found" loop of discover_all: every location exists,
\* so the loop reads the first one and breaks
CursorBase(cursor_locations) ==
    IF cursor_locations = <<>> THEN <<>>
    ELSE LET path_str == PathStr(cursor_locations[1].path)
         IN  IF IsSubstring(S_cursor_server, path_str)
             THEN HomePath \o <<S_cursor_server>>
             ELSE IF IsSubstring(S_config_Cursor, path_str)
             THEN HomePath \o <<S_config, S_Cursor>>
             ELSE <<>>

\* discover_all(home); an absent base (None) is the empty path
discover_all(h) ==
    LET c == discover_claude_code(h)
        cursor_locations == discover_cursor(h)
    IN  IF c.raised
        THEN [raised |-> TRUE, hostname |-> LocalHostname, claude_code_base |-> <<>>,
              cursor_base |-> <<>>, locations |-> <<>>]
        ELSE [raised |-> FALSE,
              hostname |-> LocalHostname,
              claude_code_base |-> ClaudeCodeBase(h),
              cursor_base |-> CursorBase(cursor_locations),
              locations |-> c.locations \o cursor_locations]

\* sequences of at most n entries with pairwise different names
DistinctSeqs(S, n) ==
    {q \in UNION {[1..k -> S] : k \in 0..n} :
        \A i, j \in 1..Len(q) : i # j => q[i].name # q[j].name}

NoDir == [exists |-> FALSE, entries |-> <<>>]

NoHist == [exists |-> FALSE, dirs |-> 0]

\* a home with nothing in it
EmptyHome ==
    [claude |-> FALSE, index |-> "absent", index_lines |-> 0, projects |-> NoDir,
     roots |-> [i \in 1..3 |-> FALSE],
     ws |-> [i \in 1..3 |-> NoDir],
     hist |-> [j \in 1..2 |-> NoHist]]

\* the name of the i-th entry of a workspaceStorage directory: the first is
\* longer than the 12 characters a label keeps, later ones drop leading characters
WorkspaceName(i) == SubSeq(S_hash, i, Len(S_hash))

\* what an entry of workspaceStorage can be: a directory with or without
\* state.vscdb, or a file
WorkspaceKinds ==
    [is_dir : {TRUE}, state_db : BOOLEAN] \cup [is_dir : {FALSE}, state_db : {FALSE}]

\* the listings of a workspaceStorage directory with at most n entries
WorkspaceListings(n) ==
    {[i \in 1..Len(q) |->
        [name |-> WorkspaceName(i), is_dir |-> q[i].is_dir, state_db |-> q[i].state_db]] :
        q \in UNION {[1..k -> WorkspaceKinds] : k \in 0..n}}

ProjectNames == {S_p1, S_a_b_c, S_dash_src, S_dash_dash_x, S_hidden}

\* an entry of .claude/projects: a directory holding `sessions` session files
\* and maybe another file, or a file
ProjectEntries ==
    [name : ProjectNames, is_dir : {TRUE}, sessions : 0..MaxSessions, other : BOOLEAN]
    \cup [name : ProjectNames, is_dir : {FALSE}, sessions : {0}, other : {FALSE}]

WsDirs(n) == {NoDir} \cup [exists : {TRUE}, entries : WorkspaceListings(n)]

HistDirs == {NoHist} \cup [exists : {TRUE}, dirs : 0..MaxHist]

\* the history directory under editor root i (history_paths lists the
\* .cursor-server one first)
HistOfRoot(i) == IF i = 1 THEN 2 ELSE IF i = 2 THEN 1 ELSE 0

\* the editor-assistant side of a home, with at most n entries in a
\* workspaceStorage directory: a root exists when anything under it does
CursorSides(n) ==
    {c \in [roots : [1..3 -> BOOLEAN], ws : [1..3 -> WsDirs(n)],
            hist : [1..2 -> HistDirs]] :
        \A i \in 1..3 :
            \/ c.roots[i]
            \/ ~c.ws[i].exists /\ (HistOfRoot(i) = 0 \/ ~c.hist[HistOfRoot(i)].exists)}

\* the CLI-assistant side of a home
ClaudeSides ==
    {[claude |-> FALSE, index |-> "absent", index_lines |-> 0, projects |-> NoDir]} \cup
    {[claude |-> TRUE, index |-> x.index, index_lines |-> x.lines, projects |-> p] :
        x \in {[index |-> "absent", lines |-> 0], [index |-> "unreadable", lines |-> 0]}
              \cup [index : {"ok"}, lines : 0..MaxLines],
        p \in {NoDir} \cup
              [exists : {TRUE}, entries : DistinctSeqs(ProjectEntries, MaxProjects)]}

\* the CLI-assistant sides with no .claude, or an empty one
CoarseClaudeSides ==
    {c \in ClaudeSides : ~c.projects.exists /\ c.index = "absent"}

MakeHome(c, u) ==
    [claude |-> c.claude, index |-> c.index, index_lines |-> c.index_lines,
     projects |-> c.projects, roots |-> u.roots, ws |-> u.ws, hist |-> u.hist]

\* the homes scanned: every CLI-assistant side with no editor data, and every
\* editor-assistant side with a coarse CLI-assistant side (the two locators
\* read disjoint directories)
Homes(n) ==
    {MakeHome(c, [roots |-> EmptyHome.roots, ws |-> EmptyHome.ws,
                  hist |-> EmptyHome.hist]) : c \in ClaudeSides}
    \cup {MakeHome(c, u) : c \in CoarseClaudeSides, u \in CursorSides(n)}

NoResult ==
    [raised |-> FALSE, hostname |-> "", claude_code_base |-> <<>>,
     cursor_base |-> <<>>, locations |-> <<>>]

(* ----------------------------- consolidate.py -------------------------- *)

\* LinkTool with the skip lost: an occupied target is removed even without force
LinkTool_always_unlink(e, base, force) ==
    LET occupied == Exists(e) \/ IsSymlink(e)
        unlinkRaises == occupied /\ e.kind = "dir"
        afterRm == IF occupied /\ ~unlinkRaises THEN Absent ELSE e
        free == ~Exists(afterRm) /\ ~IsSymlink(afterRm)
    IN  [ent |-> IF unlinkRaises THEN e ELSE IF free THEN Link(base) ELSE afterRm,
         raised |-> unlinkRaises,
         created |-> ~unlinkRaises /\ free,
         skipped |-> FALSE]

\* LinkTool with the removal lost: force only silences the skip report
LinkTool_never_unlink(e, base, force) ==
    LET occupied == Exists(e) \/ IsSymlink(e)
    IN  [ent |-> IF occupied THEN e ELSE Link(base),
         raised |-> FALSE,
         created |-> ~occupied,
         skipped |-> occupied /\ ~force]

\* One tool of consolidate_local: the exists/force/unlink block and the
\* re-check before symlink_to. unlink() of a real directory raises.
LinkTool(e, base, force) ==
    LET occupied == Exists(e) \/ IsSymlink(e)
        unlinkRaises == occupied /\ force /\ e.kind = "dir"
        afterRm == IF occupied /\ force /\ ~unlinkRaises THEN Absent ELSE e
        free == ~Exists(afterRm) /\ ~IsSymlink(afterRm)
    IN  [ent |-> IF unlinkRaises THEN e ELSE IF free THEN Link(base) ELSE afterRm,
         raised |-> unlinkRaises,
         created |-> ~unlinkRaises /\ free,
         skipped |-> occupied /\ ~force]

\* the base a DiscoveryResult names for a tool, and the tools it names one for
Base(d, tool) == IF tool = "claude-code" THEN d.claude_code_base ELSE d.cursor_base

Present(d) == {t \in Tools : Base(d, t) # None}

\* Untouched with the base test lost on removal: the entry is taken away
Untouched_removed(e) ==
    [ent |-> Absent, raised |-> FALSE, created |-> FALSE, skipped |-> FALSE]

\* a tool whose block is not entered ("if discovery.<tool>_base:" is false, or
\* an earlier block raised): its entry stays and nothing is reported
Untouched(e) == [ent |-> e, raised |-> FALSE, created |-> FALSE, skipped |-> FALSE]

\* consolidate_local(consolidated_dir, discovery, force): the new root and what
\* was reported. An exception in the claude-code block leaves cursor untried.
consolidate_local(r, d, force) ==
    LET h == d.hostname
        r1 == MkdirHost(r, h)
        c == IF d.claude_code_base # None
             THEN LinkTool(r1[h].ent["claude-code"], d.claude_code_base, force)
             ELSE Untouched(r1[h].ent["claude-code"])
        r2 == SetEntry(r1, h, "claude-code", c.ent)
        u == IF ~c.raised /\ d.cursor_base # None
             THEN LinkTool(r2[h].ent["cursor"], d.cursor_base, force)
             ELSE Untouched(r2[h].ent["cursor"])
        r3 == SetEntry(r2, h, "cursor", u.ent)
    IN  [root |-> r3,
         raised_at |-> IF c.raised THEN "claude-code"
                       ELSE IF u.raised THEN "cursor" ELSE None,
         created |-> {t \in Tools : IF t = "claude-code" THEN c.created ELSE u.created},
         skipped |-> {t \in Tools : IF t = "claude-code" THEN c.skipped ELSE u.skipped}]

\* setup_remote_dir(consolidated_dir, hostname): the host directory, then the
\* two tool directories in turn; a tool path held by a file or a stale link
\* raises and leaves what was made before it
setup_remote_dir(r, hostname) ==
    LET r1 == MkdirHost(r, hostname)
        c == r1[hostname].ent["claude-code"]
        r2 == SetEntry(r1, hostname, "claude-code", MkdirEntry(c))
        u == r2[hostname].ent["cursor"]
        r3 == SetEntry(r2, hostname, "cursor", MkdirEntry(u))
    IN  IF MkdirRaises(c) THEN [root |-> r1, raised |-> TRUE]
        ELSE IF MkdirRaises(u) THEN [root |-> r2, raised |-> TRUE]
        ELSE [root |-> r3, raised |-> FALSE]

\* a base path of discover_all as consolidate_local's symlink target
BaseStr(path) ==
    CASE path = ClaudeBasePath -> "~/.claude"
      [] path = HomePath \o <<S_cursor_server>> -> "~/.cursor-server"
      [] path = HomePath \o <<S_config, S_Cursor>> -> "~/.config/Cursor"
      [] OTHER -> None

\* the DiscoveryResult of discover_all as consolidate_local reads it
AsDiscovery(res) ==
    [hostname |-> res.hostname,
     claude_code_base |-> BaseStr(res.claude_code_base),
     cursor_base |-> BaseStr(res.cursor_base)]

\* a workspaceStorage directory holding one workspace with a state.vscdb
OneWorkspace ==
    [exists |-> TRUE,
     entries |-> <<[name |-> WorkspaceName(1), is_dir |-> TRUE, state_db |-> TRUE]>>]

\* a home with the editor assistant's data under root i only
EditorHome(h, i) == [h EXCEPT !.roots[i] = TRUE, !.ws[i] = OneWorkspace]

\* the homes consolidate() is run on in SpecConsolidate: nothing, the CLI assistant only (index
\* absent or unreadable), and the editor assistant under each of its roots
\* with and without the CLI assistant
ConsolidateHomes ==
    LET withClaude == [EmptyHome EXCEPT !.claude = TRUE]
    IN  {EmptyHome, withClaude, [withClaude EXCEPT !.index = "unreadable"]}
        \cup {EditorHome(h, i) : h \in {EmptyHome, withClaude}, i \in 1..3}

\* no .gitignore in the root
NoFile == [kind |-> "absent", lines |-> <<>>]

\* gitignore_content of ensure_gitignore, line by line (each line ends with a
\* newline in the file)
gitignore_content ==
    <<"# Ignore remote history data (actual files, not symlinks)",
      "# Keep symlinks for local histories",
      "",
      "# Ignore all remote host directories (they contain actual data)",
      "*/claude-code/",
      "*/cursor/",
      "",
      "# But don't ignore the symlinks (they're just pointers)",
      "!*/claude-code",
      "!*/cursor",
      "",
      "# Ignore any pulled archives",
      "*.tar.gz",
      "*.zip",
      "",
      "# Common patterns to ignore",
      "*.pyc",
      "__pycache__/",
      ".DS_Store">>

\* a file holding the given lines
File(lines) == [kind |-> "file", lines |-> lines]

\* Path.write_text(content): the file is created or truncated, then written
write_text(f, content) == File(content)

\* ensure_gitignore writing only when there is no .gitignore yet
ensure_gitignore_keeps_existing(g) ==
    IF g.kind = "absent" THEN write_text(g, gitignore_content) ELSE g

\* ensure_gitignore(consolidated_dir): .gitignore afterwards
ensure_gitignore(g) == write_text(g, gitignore_content)

\* lines a user may add to .gitignore
UserLines == {"*.log", "!*/cursor/"}

\* the sequence without its i-th element
Without(q, i) == SubSeq(q, 1, i - 1) \o SubSeq(q, i + 1, Len(q))

\* what one edit by the user can make of .gitignore: delete it, empty it,
\* drop a line, add a line at the end or at the top, or create it
UserEdits(g) ==
    IF g.kind = "absent" THEN {File(<<l>>) : l \in UserLines}
    ELSE {NoFile, File(<<>>)}
         \cup {File(Without(g.lines, i)) : i \in 1..Len(g.lines)}
         \cup {File(Append(g.lines, l)) : l \in UserLines}
         \cup {File(<<l>> \o g.lines) : l \in UserLines}

(* ----------------------------- pull_remote.py -------------------------- *)

claude_paths == <<"~/.claude">>

cursor_paths == <<"~/.cursor-server", "~/.config/Cursor", "~/.cursor">>

RemotePaths == {"~/.claude", "~/.cursor-server", "~/.config/Cursor", "~/.cursor"}

\* ProbeLoop with the break lost: every path is probed, the last existing wins
ProbeLoop_no_break(paths, ex, i) ==
    LET hits == {j \in i..Len(paths) : paths[j] \in ex}
    IN  [found |-> IF hits = {} THEN None
                   ELSE paths[CHOOSE j \in hits : \A k \in hits : k <= j],
         probed |-> SubSeq(paths, i, Len(paths))]

\* One "for path in paths" loop of discover_remote_histories from index i:
\* ex is the set of paths for which the remote test prints "exists".
RECURSIVE ProbeLoop(_, _, _)
ProbeLoop(paths, ex, i) ==
    IF i > Len(paths) THEN [found |-> None, probed |-> <<>>]
    ELSE IF paths[i] \in ex THEN [found |-> paths[i], probed |-> <<paths[i]>>]
    ELSE LET rest == ProbeLoop(paths, ex, i + 1)
         IN  [found |-> rest.found, probed |-> <<paths[i]>> \o rest.probed]

\* discover_remote_histories(host) against a remote where exactly ex exist
discover_remote_histories(ex) ==
    LET c == ProbeLoop(claude_paths, ex, 1)
        u == ProbeLoop(cursor_paths, ex, 1)
    IN  [claude_code |-> c.found, cursor |-> u.found, probed |-> c.probed \o u.probed]

\* rsync_remote_dir(host, remote_path, local_path, dry_run) with the rsync
\* subprocess ending as `outcome` ("ok": exit 0, "fail": non-zero, "raise").
\* With --delete and a trailing slash the destination's content becomes the
\* remote's; a destination that is a link to a directory is written through.
rsync_remote_dir(r, lv, host, tool, dry_run, outcome) ==
    LET h == host.hostname
        e == r[h].ent[tool]
        e1 == MkdirEntry(e)
        r1 == SetEntry(MkdirHost(r, h), h, tool, e1)
        writes == outcome = "ok" /\ ~dry_run
    IN  IF MkdirRaises(e)
        THEN [root |-> r, live |-> lv, ret |-> "raised", ran |-> FALSE]
        ELSE IF outcome = "raise"
        THEN [root |-> r1, live |-> lv, ret |-> "raised", ran |-> TRUE]
        ELSE [root |-> IF writes /\ e1.kind = "dir"
                       THEN SetEntry(r1, h, tool, Dir(host.ssh_host)) ELSE r1,
              live |-> IF writes /\ e1.kind = "link"
                       THEN [lv EXCEPT ![e1.ref] = host.ssh_host] ELSE lv,
              ret |-> IF outcome = "ok" THEN "True" ELSE "False",
              ran |-> TRUE]

\* NothingFound with the early return lost
NothingFound_dropped(d) == FALSE

\* NothingFound decided over the requested tools only
NothingFound_requested(d) ==
    /\ (fr.claude_code => d.claude_code = None)
    /\ (fr.cursor => d.cursor = None)

\* "if not discoveries['claude_code'] and not discoveries['cursor']"
NothingFound(d) == d.claude_code = None /\ d.cursor = None

\* Mirrors with the discovery test lost: every requested tool is mirrored
Mirrors_ignores_found(wanted, path) == wanted

\* "if <flag> and discoveries[<tool>]": the tool is mirrored
Mirrors(wanted, path) == wanted /\ path # None

\* Success with the not-found branch failing the pull as well
Success_notfound_fails(success, wanted, path, ret) ==
    IF wanted /\ (path = None \/ ret = "False") THEN FALSE ELSE success

\* Success assigned from the last mirror's result instead of only cleared
Success_last_wins(success, wanted, path, ret) ==
    IF wanted /\ path # None THEN ret # "False" ELSE success

\* success after one "Pull <tool>" block: only a mirror that ran and returned
\* False clears it; the "elif <flag>" branch (not found) only prints
Success(success, wanted, path, ret) ==
    IF Mirrors(wanted, path) /\ ret = "False" THEN FALSE ELSE success

\* str(bool) of pull_from_remote's return value
Str(b) == IF b THEN "True" ELSE "False"

\* Caught without the except clause: an exception ends the loop
Caught_no_except(p) == p \in {"NOTHING_FOUND", "DONE"}

\* Caught for a loop that stops at a pull that did not reach its last statement
Caught_only_done(p) == p = "DONE"

\* pull_from_multiple's try/except around pull_from_remote: the positions at
\* which the loop body ends and the loop goes on (returned, or raised and caught)
Caught(p) == p \in {"NOTHING_FOUND", "DONE", "RAISED"}

NoFrame ==
    [host |-> RemoteHost("", ""), claude_code |-> FALSE, cursor |-> FALSE,
     dry_run |-> FALSE, disc |-> [claude_code |-> None, cursor |-> None],
     discovered |-> FALSE, success |-> TRUE, ret |-> "none"]

NoCon ==
    [d |-> [hostname |-> "", claude_code_base |-> None, cursor_base |-> None],
     force |-> FALSE, raised_at |-> None, created |-> {}, skipped |-> {},
     rerun |-> FALSE]

NoMul ==
    [active |-> FALSE, hosts |-> <<>>, idx |-> 0, dry_run |-> FALSE,
     results |-> <<>>, outcomes |-> <<>>]

NewFrame(host, claude_code, cursor, dry_run) ==
    [host |-> host, claude_code |-> claude_code, cursor |-> cursor,
     dry_run |-> dry_run, disc |-> [claude_code |-> None, cursor |-> None],
     discovered |-> FALSE, success |-> TRUE, ret |-> "none"]

\* what "test -d <path> && echo exists" over ssh can give for a path: stdout
\* "exists", or empty stdout with the test failing or the host not reached,
\* or run_ssh_command raising (ssh not started, output not decodable)
Answers == {"exists", "absent", "unreachable", "raises"}

\* the paths for which '"exists" in stdout' holds
Existing(rem) == {p \in RemotePaths : rem[p] = "exists"}

\* a remote that answers no probe with "exists"
NoRemote == [p \in RemotePaths |-> "absent"]

\* positions at which no operation is running
Terminal ==
    {"IDLE", "CONSOLIDATED", "CONSOLIDATE_RAISED", "DISCOVERY_RAISED",
     "SETUP", "SETUP_RAISED", "NOTHING_FOUND", "DONE",
     "RAISED", "SUMMARY"}

CanStart == pc \in Terminal /\ ~mul.active /\ ops < MaxOps

(* ------------------------------- actions ------------------------------- *)

\* consolidate_local(root, discovery, force)
ConsolidateLocal ==
    \E d \in DiscoveryResults, force \in BOOLEAN :
        LET res == consolidate_local(root, d, force)
        IN  /\ CanStart
            /\ root' = res.root
            /\ con' = [d |-> d, force |-> force, raised_at |-> res.raised_at,
                       created |-> res.created, skipped |-> res.skipped,
                       rerun |-> pc = "CONSOLIDATED" /\ con.d.hostname = d.hostname
                                 /\ Present(d) \subseteq Present(con.d)]
            /\ pc' = IF res.raised_at # None THEN "CONSOLIDATE_RAISED"
                     ELSE "CONSOLIDATED"
            /\ root0' = root
            /\ ops' = ops + 1
            /\ fr' = NoFrame /\ probes' = <<>> /\ calls' = <<>> /\ mul' = NoMul
            /\ UNCHANGED <<live, home, dres, remote, gitignore, edits>>

\* consolidate(output_dir, force): ensure_gitignore, discover_all on the home,
\* then consolidate_local with what was discovered. A scan that raises ends
\* the call after .gitignore was written.
Consolidate ==
    \E force \in BOOLEAN :
        LET scan == discover_all(home)
            d == AsDiscovery(scan)
            res == consolidate_local(root, d, force)
        IN  /\ CanStart
            /\ gitignore' = ensure_gitignore(gitignore)
            /\ dres' = scan
            /\ IF scan.raised
               THEN /\ pc' = "DISCOVERY_RAISED"
                    /\ con' = NoCon
                    /\ root' = root
               ELSE /\ root' = res.root
                    /\ con' = [d |-> d, force |-> force,
                               raised_at |-> res.raised_at,
                               created |-> res.created, skipped |-> res.skipped,
                               rerun |-> pc = "CONSOLIDATED"
                                         /\ con.d.hostname = d.hostname
                                         /\ Present(d) \subseteq Present(con.d)]
                    /\ pc' = IF res.raised_at # None THEN "CONSOLIDATE_RAISED"
                             ELSE "CONSOLIDATED"
            /\ root0' = root
            /\ ops' = ops + 1
            /\ fr' = NoFrame /\ probes' = <<>> /\ calls' = <<>> /\ mul' = NoMul
            /\ UNCHANGED <<live, home, remote, edits>>

\* setup_remote_dir(root, hostname)
SetupRemoteDir ==
    \E hostname \in Hostnames :
        LET res == setup_remote_dir(root, hostname)
        IN  /\ CanStart
            /\ root' = res.root
            /\ pc' = IF res.raised THEN "SETUP_RAISED" ELSE "SETUP"
            /\ root0' = root
            /\ ops' = ops + 1
            /\ fr' = NoFrame /\ probes' = <<>> /\ calls' = <<>>
            /\ con' = NoCon /\ mul' = NoMul
            /\ UNCHANGED <<live, home, dres, remote, gitignore, edits>>

\* the single-host call of pull_from_remote from the command line
StartPull ==
    \E host \in RemoteHosts, claude_code \in BOOLEAN, cursor \in BOOLEAN,
       dry_run \in BOOLEAN :
        /\ CanStart
        /\ fr' = NewFrame(host, claude_code, cursor, dry_run)
        /\ pc' = "DISCOVER"
        /\ probes' = <<>> /\ calls' = <<>>
        /\ root0' = root
        /\ ops' = ops + 1
        /\ con' = NoCon /\ mul' = NoMul
        /\ UNCHANGED <<root, live, home, dres, remote, gitignore, edits>>

\* pull_from_remote: discover_remote_histories and the nothing-found test.
\* Every probe is one run_ssh_command call: the ssh subprocess answers (ex: the
\* paths reported existing), or the call raises (ssh cannot be started, its
\* output cannot be decoded) at the k-th probe, the first or a later one; the
\* probes before it were answered, the editor ones with no "exists".
Discover ==
    /\ pc = "DISCOVER"
    /\ \/ \E ex \in SUBSET RemotePaths :
            LET d == discover_remote_histories(ex)
            IN  /\ probes' = d.probed
                /\ IF NothingFound(d)
                   THEN /\ pc' = "NOTHING_FOUND"
                        /\ fr' = [fr EXCEPT !.ret = "False", !.discovered = TRUE,
                                    !.disc = [claude_code |-> d.claude_code,
                                              cursor |-> d.cursor]]
                   ELSE /\ pc' = "FOUND"
                        /\ fr' = [fr EXCEPT !.discovered = TRUE,
                                    !.disc = [claude_code |-> d.claude_code,
                                              cursor |-> d.cursor]]
       \/ \E k \in 1..Len(claude_paths \o cursor_paths) :
            /\ probes' = SubSeq(claude_paths \o cursor_paths, 1, k)
            /\ pc' = "RAISED"
            /\ fr' = [fr EXCEPT !.ret = "raised"]
    /\ UNCHANGED <<root, live, calls, con, mul, root0, ops, home, dres, remote, gitignore, edits>>

\* pull_from_remote: host_dir.mkdir and success = True
MakeHostDir ==
    /\ pc = "FOUND"
    /\ root' = MkdirHost(root, fr.host.hostname)
    /\ fr' = [fr EXCEPT !.success = TRUE]
    /\ pc' = "SYNC_CLAUDE"
    /\ UNCHANGED <<live, probes, calls, con, mul, root0, ops, home, dres, remote, gitignore, edits>>

\* One "Pull <tool>" block of pull_from_remote: wanted is the tool's flag,
\* path its discovered remote path, next the position after the block.
SyncTool(tool, wanted, path, next) ==
    IF Mirrors(wanted, path)
    THEN \E outcome \in {"ok", "fail", "raise"} :
            LET res == rsync_remote_dir(root, live, fr.host, tool, fr.dry_run, outcome)
                success == Success(fr.success, wanted, path, res.ret)
            IN  /\ root' = res.root
                /\ live' = res.live
                /\ calls' = Append(calls, [tool |-> tool, src |-> path,
                                           ret |-> res.ret, ran |-> res.ran])
                /\ IF res.ret = "raised"
                   THEN /\ pc' = "RAISED"
                        /\ fr' = [fr EXCEPT !.ret = "raised"]
                   ELSE /\ pc' = next
                        /\ fr' = [fr EXCEPT
                                    !.success = success,
                                    !.ret = IF next = "DONE" THEN Str(success) ELSE @]
    ELSE LET success == Success(fr.success, wanted, path, "none")
         IN  /\ pc' = next
             /\ fr' = [fr EXCEPT !.success = success,
                                 !.ret = IF next = "DONE" THEN Str(success) ELSE @]
             /\ UNCHANGED <<root, live, calls>>

\* pull_from_remote: the "Pull Claude Code" block
SyncClaude ==
    /\ pc = "SYNC_CLAUDE"
    /\ SyncTool("claude-code", fr.claude_code, fr.disc.claude_code, "SYNC_CURSOR")
    /\ UNCHANGED <<probes, con, mul, root0, ops, home, dres, remote, gitignore, edits>>

\* pull_from_remote: the "Pull Cursor" block and return success
SyncCursor ==
    /\ pc = "SYNC_CURSOR"
    /\ SyncTool("cursor", fr.cursor, fr.disc.cursor, "DONE")
    /\ UNCHANGED <<probes, con, mul, root0, ops, home, dres, remote, gitignore, edits>>

\* DictSet putting a new key first instead of last
DictSet_prepends(results, key, value) ==
    IF \E i \in 1..Len(results) : results[i].hostname = key
    THEN [i \in 1..Len(results) |->
            IF results[i].hostname = key
            THEN [hostname |-> key, success |-> value] ELSE results[i]]
    ELSE <<[hostname |-> key, success |-> value]>> \o results

\* results[key] = value on a Python dict kept as a list of pairs in insertion order
DictSet(results, key, value) ==
    IF \E i \in 1..Len(results) : results[i].hostname = key
    THEN [i \in 1..Len(results) |->
            IF results[i].hostname = key
            THEN [hostname |-> key, success |-> value] ELSE results[i]]
    ELSE Append(results, [hostname |-> key, success |-> value])

DictGet(results, key) ==
    LET i == CHOOSE i \in 1..Len(results) : results[i].hostname = key
    IN  results[i].success

\* the tools whose mirror returned True in a pull's calls
MirroredTools(cs) == {cs[i].tool : i \in {j \in 1..Len(cs) : cs[j].ret = "True"}}

HostLists == UNION {[1..n -> RemoteHosts] : n \in 0..MaxOps}

\* pull_from_multiple(hosts, consolidated_dir, dry_run): entry, up to the first
\* pull_from_remote call (claude_code and cursor keep their defaults)
StartMultiple ==
    \E hosts \in HostLists, dry_run \in BOOLEAN :
        /\ CanStart
        /\ ops + Len(hosts) <= MaxOps
        /\ ops' = ops + (IF Len(hosts) = 0 THEN 1 ELSE Len(hosts))
        /\ con' = NoCon
        /\ probes' = <<>> /\ calls' = <<>>
        /\ root0' = root
        /\ IF Len(hosts) = 0
           THEN /\ pc' = "SUMMARY"
                /\ fr' = NoFrame
                /\ mul' = [active |-> FALSE, hosts |-> hosts, idx |-> 0,
                           dry_run |-> dry_run, results |-> <<>>, outcomes |-> <<>>]
           ELSE /\ pc' = "DISCOVER"
                /\ fr' = NewFrame(hosts[1], TRUE, TRUE, dry_run)
                /\ mul' = [active |-> TRUE, hosts |-> hosts, idx |-> 1,
                           dry_run |-> dry_run, results |-> <<>>, outcomes |-> <<>>]
        /\ UNCHANGED <<root, live, home, dres, remote, gitignore, edits>>

\* pull_from_multiple: one host's pull has returned or raised; record it and go
\* on to the next host, or print the summary after the last
NextHost ==
    /\ mul.active
    /\ Caught(pc)
    /\ LET ok == fr.ret = "True"
           results == DictSet(mul.results, fr.host.hostname, ok)
           outcomes == Append(mul.outcomes,
                              [ret |-> fr.ret, mirrored |-> MirroredTools(calls)])
       IN  IF mul.idx < Len(mul.hosts)
           THEN /\ mul' = [mul EXCEPT !.idx = @ + 1, !.results = results,
                                      !.outcomes = outcomes]
                /\ fr' = NewFrame(mul.hosts[mul.idx + 1], TRUE, TRUE, mul.dry_run)
                /\ pc' = "DISCOVER"
                /\ probes' = <<>> /\ calls' = <<>>
                /\ root0' = root
           ELSE /\ mul' = [mul EXCEPT !.active = FALSE, !.results = results,
                                      !.outcomes = outcomes]
                /\ pc' = "SUMMARY"
                /\ UNCHANGED <<fr, probes, calls, root0>>
    /\ UNCHANGED <<root, live, con, ops, home, dres, remote, gitignore, edits>>

(* ---------------------------- specification ---------------------------- *)

\* what may already sit at a tool path before the scripts run
PreEntries == {Absent, RegularFile, Link(StaleTarget)}

\* the root before the scripts run: empty, or holding the local host's directory
InitRoots ==
    {[h \in Hostnames |-> EmptyHost]} \cup
    {[h \in Hostnames |->
        IF h = LocalHostname THEN [exists |-> TRUE, ent |-> ent] ELSE EmptyHost] :
        ent \in [Tools -> PreEntries]}

\* the scripts have not run yet
Quiet ==
    /\ live = [b \in LiveBases |-> "own"]
    /\ pc = "IDLE"
    /\ fr = NoFrame
    /\ probes = <<>>
    /\ calls = <<>>
    /\ con = NoCon
    /\ mul = NoMul
    /\ root0 = root
    /\ ops = 0
    /\ dres = NoResult
    /\ edits = 0

Init ==
    /\ root \in InitRoots
    /\ home = EmptyHome
    /\ remote = NoRemote
    /\ gitignore = NoFile
    /\ Quiet

Next ==
    \/ ConsolidateLocal
    \/ SetupRemoteDir
    \/ StartPull
    \/ Discover
    \/ MakeHostDir
    \/ SyncClaude
    \/ SyncCursor
    \/ StartMultiple
    \/ NextHost

Spec == Init /\ [][Next]_vars

\* Every call of the scripts is a blocking call in a single thread: once a
\* pull or the host loop has started, its next statement is executed.
\* (At most one of these steps is enabled in a state.)
Fairness == WF_vars(Discover \/ MakeHostDir \/ SyncClaude \/ SyncCursor \/ NextHost)

\* One run of pull_remote.py: its main block calls pull_from_remote or
\* pull_from_multiple once, so a pull starts from IDLE only and the steps
\* that follow are those of that call.
NextRun ==
    /\ pc = "IDLE" \/ pc \notin Terminal \/ mul.active
    /\ \/ StartPull
       \/ Discover
       \/ MakeHostDir
       \/ SyncClaude
       \/ SyncCursor
       \/ StartMultiple
       \/ NextHost

\* the scripts run on a fresh root
InitFresh ==
    /\ root = [h \in Hostnames |-> EmptyHost]
    /\ home = EmptyHome
    /\ remote = NoRemote
    /\ gitignore = NoFile
    /\ Quiet

\* one run of pull_remote.py on a fresh root, its statements executed in turn
FairSpec == InitFresh /\ [][NextRun]_vars /\ Fairness

\* discover_remote_histories(host) against the remote drawn at the start
ProbeRemote ==
    \E host \in RemoteHosts :
        LET d == discover_remote_histories(Existing(remote))
            raising == {k \in 1..Len(d.probed) : remote[d.probed[k]] = "raises"}
            first == CHOOSE k \in raising : \A j \in raising : k <= j
        IN  /\ pc = "IDLE"
            /\ IF raising = {}
               THEN /\ probes' = d.probed
                    /\ fr' = [NewFrame(host, TRUE, TRUE, FALSE) EXCEPT
                                !.discovered = TRUE,
                                !.disc = [claude_code |-> d.claude_code,
                                          cursor |-> d.cursor]]
                    /\ pc' = "PROBED"
               ELSE /\ probes' = SubSeq(d.probed, 1, first)
                    /\ fr' = [NewFrame(host, TRUE, TRUE, FALSE) EXCEPT
                                !.ret = "raised"]
                    /\ pc' = "PROBE_RAISED"
            /\ UNCHANGED <<root, live, calls, con, mul, root0, ops, home, dres, remote,
                           gitignore, edits>>

InitProbe ==
    /\ root = [h \in Hostnames |-> EmptyHost]
    /\ home = EmptyHome
    /\ remote \in [RemotePaths -> Answers]
    /\ gitignore = NoFile
    /\ Quiet

NextProbe == ProbeRemote

SpecProbe == InitProbe /\ [][NextProbe]_vars

\* ensure_gitignore(root) on an existing root
EnsureGitignore ==
    /\ pc \in {"IDLE", "GITIGNORE_WRITTEN", "EDITED"}
    /\ gitignore' = ensure_gitignore(gitignore)
    /\ pc' = "GITIGNORE_WRITTEN"
    /\ UNCHANGED <<root, live, fr, probes, calls, con, mul, root0, ops, home, dres,
                   remote, edits>>

\* the user edits .gitignore between two runs
UserEdit ==
    /\ pc \in {"IDLE", "GITIGNORE_WRITTEN", "EDITED"}
    /\ edits < MaxEdits
    /\ gitignore' \in UserEdits(gitignore)
    /\ edits' = edits + 1
    /\ pc' = "EDITED"
    /\ UNCHANGED <<root, live, fr, probes, calls, con, mul, root0, ops, home, dres,
                   remote>>

InitGitignore ==
    /\ root = [h \in Hostnames |-> EmptyHost]
    /\ home = EmptyHome
    /\ remote = NoRemote
    /\ gitignore \in {NoFile} \cup {File(<<l>>) : l \in UserLines}
    /\ Quiet

NextGitignore ==
    \/ EnsureGitignore
    \/ UserEdit

SpecGitignore == InitGitignore /\ [][NextGitignore]_vars

\* discover_all(home) on a home drawn from Homes(MaxWs)
DiscoverAll ==
    /\ pc = "IDLE"
    /\ dres' = discover_all(home)
    /\ pc' = "DISCOVERED"
    /\ UNCHANGED <<root, live, fr, probes, calls, con, mul, root0, ops, home, remote,
                   gitignore, edits>>

InitDiscover ==
    /\ root = [h \in Hostnames |-> EmptyHost]
    /\ home \in Homes(MaxWs)
    /\ remote = NoRemote
    /\ gitignore = NoFile
    /\ Quiet

NextDiscover == DiscoverAll

SpecDiscover == InitDiscover /\ [][NextDiscover]_vars

\* runs of consolidate.py: consolidate() on a home drawn at the start, over a
\* root and a .gitignore that earlier runs or the user may have left, and
\* setup_remote_dir
InitConsolidate ==
    /\ root \in InitRoots
    /\ home \in ConsolidateHomes
    /\ remote = NoRemote
    /\ gitignore \in {NoFile} \cup {File(<<l>>) : l \in UserLines}
    /\ Quiet

NextConsolidate ==
    \/ Consolidate
    \/ SetupRemoteDir

SpecConsolidate == InitConsolidate /\ [][NextConsolidate]_vars

(* ------------------------- claims: remote pulls ------------------------ *)

\* what reading root/hostname/<tool> yields: a directory's content, through a link
Content(hostname, tool) ==
    LET e == root[hostname].ent[tool]
    IN  IF e.kind = "dir" THEN e.ref
        ELSE IF e.kind = "link" /\ e.ref \in LiveBases THEN live[e.ref]
        ELSE "none"

\* C1: when discovery finds neither the CLI-assistant path nor any editor
\* candidate, pull_from_remote returns False, the root is as it was when the
\* pull was called (no directory for the host is created) and rsync_remote_dir
\* is never called, whatever the host and the flags.
C1_NothingFoundNoDirs ==
    (fr.discovered /\ fr.disc.claude_code = None /\ fr.disc.cursor = None) =>
        /\ pc \in {"NOTHING_FOUND", "SUMMARY"}
        /\ fr.ret = "False"
        /\ root = root0
        /\ calls = <<>>

C1_Witness ==
    /\ pc = "NOTHING_FOUND"
    /\ fr.claude_code /\ fr.cursor /\ ~fr.dry_run
    /\ Len(probes) = 4
    /\ ~root[fr.host.hostname].exists

\* C2: a pull with dry_run=True leaves the consolidated tree as it was when
\* the pull was called.
C2_DryRunNoMutation == fr.dry_run => root = root0

\* C3 as stated: in a pull that got past discovery, a requested tool that was
\* not found, or a mirror that failed, makes the pull return False.
C3_NotFoundFails ==
    (/\ pc = "DONE"
     /\ \/ fr.claude_code /\ fr.disc.claude_code = None
        \/ fr.cursor /\ fr.disc.cursor = None
        \/ \E i \in 1..Len(calls) : calls[i].ret = "False")
    => fr.ret = "False"

\* C3 as amended: a pull that found at least one tool returns False exactly
\* when some mirror it ran returned failure; a requested tool that was not
\* found is only reported, so requesting both, finding one and mirroring it
\* successfully returns True.
C3_OnlyMirrorFailureFails ==
    pc = "DONE" =>
        /\ fr.ret \in {"True", "False"}
        /\ fr.ret = "False" <=> \E i \in 1..Len(calls) : calls[i].ret = "False"

C3_Witness ==
    /\ pc = "DONE" /\ ~mul.active
    /\ fr.claude_code /\ fr.cursor
    /\ fr.disc.claude_code # None /\ fr.disc.cursor = None
    /\ Len(calls) = 1 /\ calls[1].ret = "True"
    /\ fr.ret = "True"

\* host i is the last of the first n hosts with its hostname
LastWithHostname(i, n) ==
    \A j \in (i + 1)..n : mul.hosts[j].hostname # mul.hosts[i].hostname

\* C4: in pull_from_multiple a host whose pull returns False or raises never
\* stops the loop: the loop always goes on from a returned or raised pull,
\* every host of the list has been attempted when the summary is printed, the
\* result map holds, for each hostname, the outcome of that hostname's latest
\* pull (False for a failure or an exception, True for a success), and the
\* files a successful pull mirrored are in place at the summary.
C4_HostsIndependent ==
    LET n == Len(mul.outcomes)
    IN  /\ (mul.active /\ pc \in {"NOTHING_FOUND", "DONE", "RAISED"}) => ENABLED NextHost
        /\ n <= Len(mul.hosts)
        /\ pc = "SUMMARY" => n = Len(mul.hosts)
        /\ {mul.results[k].hostname : k \in 1..Len(mul.results)}
              = {mul.hosts[i].hostname : i \in 1..n}
        /\ \A i \in 1..n :
              /\ mul.outcomes[i].ret \in {"True", "False", "raised"}
              /\ LastWithHostname(i, n) =>
                    DictGet(mul.results, mul.hosts[i].hostname)
                        = (mul.outcomes[i].ret = "True")
              /\ (pc = "SUMMARY" /\ LastWithHostname(i, n)
                    /\ mul.outcomes[i].ret = "True" /\ ~mul.dry_run) =>
                    /\ mul.outcomes[i].mirrored # {}
                    /\ \A t \in mul.outcomes[i].mirrored :
                          Content(mul.hosts[i].hostname, t) = mul.hosts[i].ssh_host

C4_Witness ==
    /\ pc = "SUMMARY" /\ ~mul.dry_run
    /\ Len(mul.hosts) = 2
    /\ mul.hosts[1].hostname # mul.hosts[2].hostname
    /\ mul.outcomes[1].ret = "raised"
    /\ mul.outcomes[2].ret = "True" /\ mul.outcomes[2].mirrored = Tools
    /\ mul.results = <<[hostname |-> mul.hosts[1].hostname, success |-> FALSE],
                       [hostname |-> mul.hosts[2].hostname, success |-> TRUE]>>

\* C8: a pull that requests both tools and finds only an editor-assistant
\* path never calls the mirror for the CLI assistant and leaves
\* root/hostname/claude-code as it was; when it returns, it has made exactly
\* one mirror call, for cursor from the path found, and root/hostname/cursor
\* is a directory.
C8_OnlyCursorMirrored ==
    (/\ fr.discovered /\ fr.claude_code /\ fr.cursor
     /\ fr.disc.claude_code = None /\ fr.disc.cursor # None)
    => LET h == fr.host.hostname
       IN  /\ root[h].ent["claude-code"] = root0[h].ent["claude-code"]
           /\ \A i \in 1..Len(calls) : calls[i].tool = "cursor"
           /\ fr.ret \in {"True", "False"} =>
                /\ calls = <<[tool |-> "cursor", src |-> fr.disc.cursor,
                              ret |-> calls[1].ret, ran |-> TRUE]>>
                /\ root[h].exists
                /\ IsDir(root[h].ent["cursor"])

C8_Witness ==
    /\ pc = "DONE" /\ ~fr.dry_run
    /\ fr.claude_code /\ fr.cursor
    /\ fr.disc.claude_code = None /\ fr.disc.cursor = "~/.config/Cursor"
    /\ root[fr.host.hostname].ent["claude-code"] = Absent
    /\ root[fr.host.hostname].ent["cursor"] = Dir(fr.host.ssh_host)
    /\ ~root0[fr.host.hostname].exists

(* -------------------- claims: local consolidation ---------------------- *)

Consolidated == pc \in {"CONSOLIDATED", "CONSOLIDATE_RAISED"}

\* C5: a consolidate_local without force that follows a completed
\* consolidate_local naming a base for the same tools (the same or another
\* base directory) creates no link, skips every tool it names a base for and
\* leaves the root, hence every entry and link target, unchanged.
C5_SecondRunIdempotent ==
    (Consolidated /\ con.rerun /\ ~con.force) =>
        /\ pc = "CONSOLIDATED"
        /\ con.created = {}
        /\ con.skipped = Present(con.d)
        /\ root = root0

C5_Witness ==
    /\ pc = "CONSOLIDATED" /\ con.rerun /\ ~con.force
    /\ con.d.claude_code_base # None
    /\ con.d.cursor_base = "~/.config/Cursor"
    /\ root[LocalHostname].ent["cursor"] = Link("~/.cursor-server")

\* the cursor block of consolidate_local is entered unless the claude-code
\* block raised
BlockEntered(tool) == tool = "claude-code" \/ con.raised_at # "claude-code"

\* C6: consolidate_local with force, for a tool whose base is present and whose
\* target path held a regular file or a link (stale or not) when its block was
\* entered, leaves at the path a link to exactly that base.
C6_ForceReplaces ==
    (Consolidated /\ con.force) =>
        \A t \in Present(con.d) :
            (root0[con.d.hostname].ent[t].kind \in {"file", "link"} /\ BlockEntered(t))
            => root[con.d.hostname].ent[t] = Link(Base(con.d, t))

C6_Witness ==
    /\ pc = "CONSOLIDATED" /\ con.force
    /\ con.d.claude_code_base = "~/.claude"
    /\ con.d.cursor_base = "~/.cursor-server"
    /\ root0[LocalHostname].ent["claude-code"] = RegularFile
    /\ root0[LocalHostname].ent["cursor"] = Link(StaleTarget)
    /\ root[LocalHostname].ent["claude-code"] = Link("~/.claude")
    /\ root[LocalHostname].ent["cursor"] = Link("~/.cursor-server")

\* the shape C7 gives the root: local entries are links to live bases, remote
\* entries are real directories, and no live base has been written to
LinksAndDirs ==
    /\ \A t \in Tools :
          LET e == root[LocalHostname].ent[t]
          IN  e.kind = "absent" \/ (e.kind = "link" /\ e.ref \in LiveBases)
    /\ \A h \in Hostnames \ {LocalHostname} : \A t \in Tools :
          root[h].ent[t].kind \in {"absent", "dir"}
    /\ \A b \in LiveBases : live[b] = "own"

\* C7: no step of consolidate_local or of a pull takes the root out of that
\* shape: local entries stay links to live bases, remote entries stay real
\* directories, and a mirror never writes through a link into a live base.
C7_ShapePreserved == [][LinksAndDirs => LinksAndDirs']_vars

\* a mirror has replaced the content of the live base ~/.claude through the
\* local host's claude-code link
C7_WriteThroughReached ==
    /\ root[LocalHostname].ent["claude-code"] = Link("~/.claude")
    /\ live["~/.claude"] # "own"

(* ------------------------- discover_all: the bases ---------------------- *)

\* discover_all returned a DiscoveryResult
Discovered == pc = "DISCOVERED" /\ ~dres.raised

\* the editor-assistant locations of the result, in order
CursorLocations == SelectSeq(dres.locations, LAMBDA l : l.tool = "cursor")

ClaudeLocations == SelectSeq(dres.locations, LAMBDA l : l.tool = "claude-code")

\* path lies under the editor assistant's root i
UnderRoot(path, i) ==
    /\ Len(path) >= Len(CursorRoots[i])
    /\ SubSeq(path, 1, Len(CursorRoots[i])) = CursorRoots[i]

\* C9: whenever discover_all found an editor-assistant location, cursor_base is
\* the root (Linux desktop config, Linux server data or macOS application
\* support) of the first location that lies under one of the three roots.
C9_CursorBaseOfFirstMatch ==
    (Discovered /\ CursorLocations # <<>>) =>
        LET first == CHOOSE k \in 1..Len(CursorLocations) :
                        /\ \E i \in 1..3 : UnderRoot(CursorLocations[k].path, i)
                        /\ \A m \in 1..(k - 1) :
                               ~\E i \in 1..3 : UnderRoot(CursorLocations[m].path, i)
        IN  \E i \in 1..3 : /\ UnderRoot(CursorLocations[first].path, i)
                            /\ dres.cursor_base = CursorRoots[i]

\* discover_all ran on a home whose only editor-assistant data is a macOS
\* workspace, and left cursor_base unset
C9_MacOnlyReached ==
    /\ Discovered
    /\ CursorLocations # <<>>
    /\ \A k \in 1..Len(CursorLocations) : UnderRoot(CursorLocations[k].path, 3)
    /\ dres.cursor_base = <<>>

FileHistoryLocations ==
    SelectSeq(CursorLocations, LAMBDA l : l.project_name = S_file_history)

\* the History candidates of the home that exist and hold a subdirectory
NonEmptyHistories == {j \in 1..2 : home.hist[j].exists /\ home.hist[j].dirs > 0}

\* C11: discover_cursor emits at most one location labelled _file_history:
\* exactly one when some History candidate exists and is non-empty (also when
\* both are), its session_count the number of subdirectories of a non-empty
\* candidate, and none otherwise.
C11_OneFileHistory ==
    Discovered =>
        /\ Len(FileHistoryLocations) <= 1
        /\ Len(FileHistoryLocations) = 1 <=> NonEmptyHistories # {}
        /\ \A k \in 1..Len(FileHistoryLocations) :
              \E j \in NonEmptyHistories :
                  /\ FileHistoryLocations[k].path = history_paths[j]
                  /\ FileHistoryLocations[k].session_count = home.hist[j].dirs

\* discover_all returned two _file_history locations for a home where both
\* History candidates hold a subdirectory
C11_TwoFileHistoriesReached ==
    /\ Discovered
    /\ NonEmptyHistories = {1, 2}
    /\ Len(FileHistoryLocations) = 2
    /\ FileHistoryLocations[1].path = history_paths[1]
    /\ FileHistoryLocations[2].path = history_paths[2]

(* ------------------- discover_claude_code: the index ------------------- *)

\* the home with history.jsonl taken away
WithoutIndex(h) == [h EXCEPT !.index = "absent", !.index_lines = 0]

\* q holds every element of p
Covers(q, p) == \A i \in 1..Len(p) : \E k \in 1..Len(q) : q[k] = p[i]

\* C12: when history.jsonl exists and cannot be read, discover_all still
\* returns a DiscoveryResult, and it holds every project location and every
\* editor-assistant location that the scan of the same home without that file
\* returns.
C12_UnreadableIndexConfined ==
    (pc = "DISCOVERED" /\ home.index = "unreadable") =>
        /\ ~dres.raised
        /\ Covers(dres.locations, discover_all(WithoutIndex(home)).locations)

\* discover_all raised on a home with an unreadable history.jsonl and a
\* project directory that the scan without that file reports
C12_ScanAbortedReached ==
    /\ pc = "DISCOVERED"
    /\ home.index = "unreadable"
    /\ dres.raised
    /\ dres.locations = <<>>
    /\ Len(discover_all(WithoutIndex(home)).locations) > 0

(* ------------------ discover_claude_code: the projects ----------------- *)

\* the label the spec gives a project directory name: '-' replaced by '/', then
\* one leading '/' stripped
ExpectedLabel(name) ==
    CASE name = S_p1 -> <<"p", "1">>
      [] name = S_a_b_c -> <<"a", "/", "b", "/", "c">>
      [] name = S_dash_src -> <<"s", "r", "c">>
      [] name = S_dash_dash_x -> <<"/", "x">>
      [] OTHER -> name

\* the positions in the result of the locations for .claude/projects/<name>
ProjectLocationsOf(name) ==
    {k \in 1..Len(ClaudeLocations) :
        ClaudeLocations[k].path = ClaudeBasePath \o <<S_projects, name>>}

\* C13: for every non-hidden subdirectory of .claude/projects with at least
\* one session file the result holds exactly one location, its session_count
\* the number of session files directly in it and its label the name with
\* every '-' replaced by '/' and one leading '/' stripped; a hidden
\* subdirectory, one without session files, and a file give no location.
C13_ProjectLocations ==
    Discovered =>
        \A i \in 1..Len(home.projects.entries) :
            LET e == home.projects.entries[i]
                at == ProjectLocationsOf(e.name)
            IN  IF e.is_dir /\ e.name[1] # "." /\ e.sessions > 0
                THEN /\ Cardinality(at) = 1
                     /\ \A k \in at :
                           /\ ClaudeLocations[k].session_count = e.sessions
                           /\ ClaudeLocations[k].project_name = ExpectedLabel(e.name)
                           /\ ClaudeLocations[k].tool = "claude-code"
                ELSE at = {}

\* discover_all returned for a home whose projects directory holds -src with
\* three session files and another file: one location, labelled src, count 3
C13_Witness ==
    /\ Discovered
    /\ home.projects.exists
    /\ home.projects.entries =
          <<[name |-> S_dash_src, is_dir |-> TRUE, sessions |-> 3, other |-> TRUE]>>
    /\ \E k \in 1..Len(ClaudeLocations) :
          /\ ClaudeLocations[k].project_name = <<"s", "r", "c">>
          /\ ClaudeLocations[k].session_count = 3

(* ------------------------ discover_all: no .claude ---------------------- *)

LinesOf(pattern) == {i \in 1..Len(gitignore.lines) : gitignore.lines[i] = pattern}

\* C15: after every ensure_gitignore call, whatever calls and user edits came
\* before it, .gitignore is a file whose content is the fixed content line for
\* line; that content lists the exclusions */claude-code/ and */cursor/ and,
\* after them, the un-exclusions !*/claude-code and !*/cursor, each once.
C15_GitignoreFixed ==
    pc = "GITIGNORE_WRITTEN" =>
        /\ gitignore = File(gitignore_content)
        /\ \A p \in {"*/claude-code/", "*/cursor/", "!*/claude-code", "!*/cursor"} :
              Cardinality(LinesOf(p)) = 1
        /\ \A i \in LinesOf("*/claude-code/") \cup LinesOf("*/cursor/") :
              \A j \in LinesOf("!*/claude-code") \cup LinesOf("!*/cursor") : i < j

\* ensure_gitignore has just rewritten a .gitignore the user had edited twice
C15_Witness ==
    /\ pc = "GITIGNORE_WRITTEN"
    /\ edits = MaxEdits
    /\ gitignore.lines = gitignore_content

(* -------------------- consolidate_local: force on a directory ---------- *)

\* C16: consolidate_local with force never raises, whatever occupies the
\* target paths (a link, a regular file or a real directory): it returns, and
\* every tool the discovery names a base for then has a link to that base.
C16_ForceNeverFails ==
    (Consolidated /\ con.force) =>
        /\ pc = "CONSOLIDATED"
        /\ \A t \in Present(con.d) :
              root[con.d.hostname].ent[t] = Link(Base(con.d, t))

\* consolidate_local with force raised on the real directory an earlier pull
\* made at <local hostname>/claude-code; the directory is still there and the
\* cursor block was never entered
C16_ForceRaisedReached ==
    /\ pc = "CONSOLIDATE_RAISED" /\ con.force
    /\ con.raised_at = "claude-code"
    /\ con.d.cursor_base # None
    /\ root0[LocalHostname].ent["claude-code"].kind = "dir"
    /\ root[LocalHostname].ent["claude-code"] = root0[LocalHostname].ent["claude-code"]
    /\ root[LocalHostname].ent["cursor"] = Absent

(* ----------------- pull_from_remote: no abort, no retry ---------------- *)

\* the flag and the discovered path of a tool in the current pull
Wanted(tool) == IF tool = "claude-code" THEN fr.claude_code ELSE fr.cursor

Found(tool) == IF tool = "claude-code" THEN fr.disc.claude_code ELSE fr.disc.cursor

\* the positions in calls of the mirror calls for a tool
CallsFor(tool) == {i \in 1..Len(calls) : calls[i].tool = tool}

\* C17: in one pull no tool is mirrored twice and a tool that is not requested
\* or not found is never mirrored; when the pull returns, every requested and
\* found tool has been mirrored exactly once, also the editor assistant after
\* the CLI assistant's mirror returned failure, and the pull returns False if
\* any mirror returned failure.
C17_NoAbortNoRetry ==
    /\ \A t \in Tools :
          /\ Cardinality(CallsFor(t)) <= 1
          /\ CallsFor(t) # {} => (fr.discovered /\ Wanted(t) /\ Found(t) # None)
    /\ pc = "DONE" =>
          /\ \A t \in Tools :
                (Wanted(t) /\ Found(t) # None) => Cardinality(CallsFor(t)) = 1
          /\ (\E i \in 1..Len(calls) : calls[i].ret = "False") => fr.ret = "False"

\* a pull returned False after the claude-code mirror failed and the cursor
\* mirror, attempted all the same, succeeded
C17_Witness ==
    /\ pc = "DONE"
    /\ Len(calls) = 2
    /\ calls[1].tool = "claude-code" /\ calls[1].ret = "False"
    /\ calls[2].tool = "cursor" /\ calls[2].ret = "True"
    /\ fr.ret = "False"

(* ------------------- discover_remote_histories: probes ----------------- *)

\* the editor-assistant candidates in the order the spec gives
EditorCandidates == <<"~/.cursor-server", "~/.config/Cursor", "~/.cursor">>

\* the probes issued after the first one
EditorProbes == Tail(probes)

\* C18: discover_remote_histories probes ~/.claude once, then the editor
\* candidates in the order ~/.cursor-server, ~/.config/Cursor, ~/.cursor up to
\* and including the first that exists: no path is probed twice, none after an
\* existing one, the recorded editor path is the first existing candidate, and
\* a tool with no existing candidate is recorded as not found (None).
C18_ProbeOrder ==
    pc = "PROBED" =>
        LET ex == Existing(remote)
            n == Len(EditorProbes)
            hits == {i \in 1..3 : EditorCandidates[i] \in ex}
        IN  /\ Len(probes) >= 1 /\ probes[1] = "~/.claude"
            /\ fr.disc.claude_code = (IF "~/.claude" \in ex THEN "~/.claude" ELSE None)
            /\ n <= 3
            /\ EditorProbes = SubSeq(EditorCandidates, 1, n)
            /\ \A i, j \in 1..Len(probes) : i # j => probes[i] # probes[j]
            /\ \A i \in 1..(n - 1) : EditorProbes[i] \notin ex
            /\ IF hits = {}
               THEN n = 3 /\ fr.disc.cursor = None
               ELSE /\ EditorProbes[n] \in ex
                    /\ fr.disc.cursor = EditorProbes[n]
                    /\ \A i \in hits : n <= i

\* the probes stopped at ~/.config/Cursor on a remote where ~/.cursor exists
\* too, ~/.cursor-server could not be tested and ~/.claude is absent
C18_Witness ==
    /\ pc = "PROBED"
    /\ remote["~/.claude"] = "absent"
    /\ remote["~/.cursor-server"] = "unreachable"
    /\ remote["~/.config/Cursor"] = "exists"
    /\ remote["~/.cursor"] = "exists"
    /\ probes = <<"~/.claude", "~/.cursor-server", "~/.config/Cursor">>
    /\ fr.disc = [claude_code |-> None, cursor |-> "~/.config/Cursor"]

(* ------------------------------ ordering ------------------------------- *)

\* the positions of the host list, among the first n, at which a hostname
\* appears for the first time
FirstMentions(n) ==
    {i \in 1..n : \A j \in 1..(i - 1) : mul.hosts[j].hostname # mul.hosts[i].hostname}

\* the k-th smallest element of a set of numbers
KthOf(S, k) == CHOOSE i \in S : Cardinality({j \in S : j <= i}) = k

\* C19: in one pull every claude-code mirror call precedes every cursor mirror
\* call, and no cursor call is made before the claude-code block is over; in
\* pull_from_multiple the pull in progress is the one of host idx of the input
\* list and exactly the hosts before it have returned or raised; the result
\* map, which the summary prints in its own order, lists the hostnames in the
\* order of their first mention in the input.
C19_Ordering ==
    /\ \A i, j \in 1..Len(calls) :
          (calls[i].tool = "claude-code" /\ calls[j].tool = "cursor") => i < j
    /\ pc \in {"DISCOVER", "FOUND", "SYNC_CLAUDE"} => CallsFor("cursor") = {}
    /\ mul.active =>
          /\ mul.idx \in 1..Len(mul.hosts)
          /\ fr.host = mul.hosts[mul.idx]
          /\ Len(mul.outcomes) = mul.idx - 1
    /\ (pc = "SUMMARY") => Len(mul.outcomes) = Len(mul.hosts)
    /\ LET first == FirstMentions(Len(mul.outcomes))
       IN  /\ Len(mul.results) = Cardinality(first)
           /\ \A k \in 1..Len(mul.results) :
                 mul.results[k].hostname = mul.hosts[KthOf(first, k)].hostname

\* the summary of a multi-host pull over box then laptop, both mirrored with
\* claude-code before cursor: box listed first
C19_Witness ==
    /\ pc = "SUMMARY"
    /\ Len(mul.hosts) = 2
    /\ mul.hosts[1].hostname = "box" /\ mul.hosts[2].hostname = "laptop"
    /\ mul.results = <<[hostname |-> "box", success |-> TRUE],
                       [hostname |-> "laptop", success |-> TRUE]>>
    /\ Len(calls) = 2
    /\ calls[1].tool = "claude-code" /\ calls[2].tool = "cursor"

(* --------------------- the pull state machine -------------------------- *)

\* the positions inside a running pull_from_remote
InPull == pc \in {"DISCOVER", "FOUND", "SYNC_CLAUDE", "SYNC_CURSOR"}

\* the pull has ended: it returned (NOTHING_FOUND, DONE) or raised
PullEnded == pc \in {"NOTHING_FOUND", "DONE", "RAISED"}

\* the pull a state belongs to: calls budgeted so far and position in the host list
PullId == <<ops, mul.idx>>

\* one step obeys DISCOVER -> NOTHING_FOUND | FOUND -> SYNC_EACH_TOOL -> DONE
\* (a call that raises ends the pull in RAISED): probing happens in DISCOVER
\* only, where neither the root nor the mirror calls change, and a pull that
\* has ended changes nothing any more
StateMachineStep ==
    /\ pc = "DISCOVER" => /\ pc' \in {"NOTHING_FOUND", "FOUND", "RAISED"}
                          /\ root' = root /\ calls' = calls /\ calls = <<>>
    /\ pc = "FOUND" => pc' = "SYNC_CLAUDE" /\ probes' = probes /\ calls' = calls
    /\ pc = "SYNC_CLAUDE" => pc' \in {"SYNC_CURSOR", "RAISED"} /\ probes' = probes
    /\ pc = "SYNC_CURSOR" => pc' \in {"DONE", "RAISED"} /\ probes' = probes
    /\ pc' = "NOTHING_FOUND" => pc = "DISCOVER"
    /\ pc' = "FOUND" => pc = "DISCOVER"
    /\ pc' = "DONE" => pc = "SYNC_CURSOR"
    /\ (PullEnded /\ PullId' = PullId) =>
          /\ pc' = "SUMMARY"
          /\ UNCHANGED <<root, live, probes, calls, fr>>

\* C20: every step of a pull follows the state machine DISCOVER ->
\* NOTHING_FOUND or DISCOVER -> FOUND -> SYNC_EACH_TOOL -> DONE, with all
\* probes before the host directory and the mirror calls and with
\* NOTHING_FOUND and DONE terminal; every started pull ends, and every
\* multi-host pull reaches its summary.
C20_StateMachine ==
    /\ [][StateMachineStep]_vars
    /\ InPull ~> PullEnded
    /\ mul.active ~> (pc = "SUMMARY")

\* a multi-host pull over two hosts has reached its summary, the first host's
\* pull having returned False with nothing mirrored and the second True
C20_Witness ==
    /\ pc = "SUMMARY"
    /\ Len(mul.hosts) = 2
    /\ mul.outcomes[1].ret = "False" /\ mul.outcomes[1].mirrored = {}
    /\ mul.results[1].success = FALSE
    /\ fr.ret = "True" /\ Len(probes) >= 2 /\ Len(calls) >= 1

(* ------------- claims: what consolidate_local leaves alone -------------- *)

\* a step that is one call of consolidate_local
ConsolidateStep == ops' = ops + 1 /\ pc' \in {"CONSOLIDATED", "CONSOLIDATE_RAISED"}

\* C21: a call of consolidate_local, with or without force and whether it
\* returns or raises, leaves the entry at root/hostname/<tool> as it was for
\* every tool the discovery result names no base for, and leaves the content of
\* every live base directory as it was: a forced removal takes away the entry
\* at the target path only, never what a link there points to.
C21_AbsentBaseUntouched ==
    [][ConsolidateStep =>
          /\ \A t \in Tools \ Present(con'.d) :
                root'[con'.d.hostname].ent[t] = root[con'.d.hostname].ent[t]
          /\ live' = live]_vars

\* a forced consolidate_local naming a base for claude-code only has replaced
\* the link to the live ~/.claude, whose content is still its own, and the
\* regular file at the cursor path is still there
C21_Witness ==
    /\ pc = "CONSOLIDATED" /\ con.force
    /\ con.d.claude_code_base = "~/.claude"
    /\ con.d.cursor_base = None
    /\ root0[LocalHostname].ent["claude-code"] = Link("~/.claude")
    /\ root[LocalHostname].ent["claude-code"] = Link("~/.claude")
    /\ "claude-code" \in con.created
    /\ root0[LocalHostname].ent["cursor"] = RegularFile
    /\ root[LocalHostname].ent["cursor"] = RegularFile
    /\ live["~/.claude"] = "own"

(* ----------------- pull_from_remote: the return value ------------------- *)

\* discovery found at least one tool on the remote
AnyFound == \E t \in Tools : Found(t) # None

\* every mirror call of the pull returned success
AllMirrorsOk == \A i \in 1..Len(calls) : calls[i].ret = "True"

\* the tools of the pull that are both requested and found
ToMirror == {t \in Tools : Wanted(t) /\ Found(t) # None}

\* C22: a pull has returned True exactly when discovery found at least one
\* tool, requested or not, and every mirror call made returned success. Whether
\* the pull ends as nothing-found or goes on, and whether root/hostname is
\* created, follows from what discovery found alone, whatever the two flags
\* are: a pull in which no found tool is requested creates the host directory,
\* makes no mirror call, leaves the tool entries as they were and returns True.
C22_ReturnValue ==
    /\ pc \in {"NOTHING_FOUND", "DONE", "RAISED"} =>
          (fr.ret = "True" <=> (AnyFound /\ AllMirrorsOk))
    /\ pc = "NOTHING_FOUND" => ~AnyFound
    /\ pc \in {"FOUND", "SYNC_CLAUDE", "SYNC_CURSOR", "DONE"} => AnyFound
    /\ pc \in {"SYNC_CLAUDE", "SYNC_CURSOR", "DONE"} => root[fr.host.hostname].exists
    /\ (pc = "DONE" /\ ToMirror = {}) =>
          /\ calls = <<>>
          /\ fr.ret = "True"
          /\ root[fr.host.hostname].ent = root0[fr.host.hostname].ent

\* a single-host pull requesting only the editor assistant found only the CLI
\* assistant: it created the host directory, mirrored nothing and returned True
C22_Witness ==
    /\ pc = "DONE" /\ ~mul.active
    /\ ~fr.claude_code /\ fr.cursor
    /\ fr.disc.claude_code # None /\ fr.disc.cursor = None
    /\ calls = <<>>
    /\ ~root0[fr.host.hostname].exists
    /\ root[fr.host.hostname].exists
    /\ \A t \in Tools : root[fr.host.hostname].ent[t] = Absent
    /\ fr.ret = "True"

====
